---- MODULE Spec2Model ----
(***************************************************************************)
(* A model of reactome2py/utils.py: ten public fetchers that each build a  *)
(* URL, issue an HTTP request, check the status code and reshape the body. *)
(* Python strings are sequences of one-character strings, so that `in`,    *)
(* str.replace, str.split, str.strip, str.splitlines and readlines are     *)
(* computed the way Python computes them.                                  *)
(***************************************************************************)
EXTENDS Integers, Sequences, FiniteSets, TLC

VARIABLES remote, input, hashSeed, pc, fn, requests, response, nested,
          file_names, printed, outcome, prev

vars == <<remote, input, hashSeed, pc, fn, requests, response, nested,
          file_names, printed, outcome, prev>>

(***************************************************************************)
(* Bounds of the model.                                                    *)
(***************************************************************************)
\* lines of svgsummary.txt, and members of the SBGN tar archive
MaxEntries == 2
\* lines of the first member of the GMT archive
MaxGmtLines == 2
\* tab-separated fields of one GMT line
MaxFields == 3
\* prefix / accession parts an stId argument is built from
MaxParts == 3
\* hash seeds an interpreter process may start with (PYTHONHASHSEED)
HashSeeds == 2
\* slots of the hash table a small set is kept in
TableSize == 8

(***************************************************************************)
(* Characters and strings.                                                 *)
(***************************************************************************)
TAB == "\t"
NL == "\n"
SP == " "

Alphabet ==
  <<NL, TAB, SP, "-", ".", "1", "2", "7", "9", "A", "H", "R", "S", "a", "b",
    "g", "n", "s", "x">>

CharCode(c) == CHOOSE i \in 1..Len(Alphabet) : Alphabet[i] = c

Whitespace == {SP, TAB, NL}

Range(s) == {s[i] : i \in 1..Len(s)}

Last(s) == s[Len(s)]

\* all sequences over S of length 0..n
SeqsUpTo(S, n) == UNION {[1..k -> S] : k \in 0..n}

RECURSIVE Concat(_)
\* ''.join(parts)
Concat(parts) ==
  IF parts = <<>> THEN <<>> ELSE Head(parts) \o Concat(Tail(parts))

RECURSIVE Join(_, _)
\* sep.join(parts)
Join(parts, sep) ==
  IF parts = <<>> THEN <<>>
  ELSE IF Len(parts) = 1 THEN Head(parts)
  ELSE Head(parts) \o sep \o Join(Tail(parts), sep)

\* s.startswith(p)
StartsWith(s, p) == Len(p) <= Len(s) /\ SubSeq(s, 1, Len(p)) = p

\* p in s
Contains(p, s) ==
  \E i \in 0..Len(s) : i + Len(p) <= Len(s) /\ SubSeq(s, i + 1, i + Len(p)) = p

RECURSIVE Interleave(_, _)
\* s.replace("", new): new before every character and at the end
Interleave(s, new) ==
  IF s = <<>> THEN new ELSE new \o <<Head(s)>> \o Interleave(Tail(s), new)

RECURSIVE ReplaceFrom(_, _, _)
ReplaceFrom(s, old, new) ==
  IF Len(s) < Len(old) THEN s
  ELSE IF StartsWith(s, old)
       THEN new \o ReplaceFrom(SubSeq(s, Len(old) + 1, Len(s)), old, new)
       ELSE <<Head(s)>> \o ReplaceFrom(Tail(s), old, new)

\* s.replace(old, new): every non-overlapping occurrence, left to right
Replace(s, old, new) ==
  IF old = <<>> THEN Interleave(s, new) ELSE ReplaceFrom(s, old, new)

\* index of the first c in s, 0 when there is none
IndexOf(s, c) ==
  IF c \in Range(s) THEN CHOOSE i \in 1..Len(s) :
                           s[i] = c /\ \A j \in 1..(i - 1) : s[j] # c
  ELSE 0

RECURSIVE Split(_, _)
\* s.split(sep) for a one-character sep: always at least one field
Split(s, sep) ==
  LET i == IndexOf(s, sep)
  IN  IF i = 0 THEN <<s>>
      ELSE <<SubSeq(s, 1, i - 1)>> \o Split(SubSeq(s, i + 1, Len(s)), sep)

RECURSIVE SplitLines(_)
\* text.splitlines(): terminators dropped, no empty last line
SplitLines(text) ==
  LET i == IndexOf(text, NL)
  IN  IF text = <<>> THEN <<>>
      ELSE IF i = 0 THEN <<text>>
      ELSE <<SubSeq(text, 1, i - 1)>> \o SplitLines(SubSeq(text, i + 1, Len(text)))

RECURSIVE ReadLines(_)
\* the_file.readlines(): terminators kept
ReadLines(bytes) ==
  LET i == IndexOf(bytes, NL)
  IN  IF bytes = <<>> THEN <<>>
      ELSE IF i = 0 THEN <<bytes>>
      ELSE <<SubSeq(bytes, 1, i)>> \o ReadLines(SubSeq(bytes, i + 1, Len(bytes)))

RECURSIVE LStrip(_)
LStrip(s) ==
  IF s # <<>> /\ Head(s) \in Whitespace THEN LStrip(Tail(s)) ELSE s

RECURSIVE RStrip(_)
RStrip(s) ==
  IF s # <<>> /\ Last(s) \in Whitespace
  THEN RStrip(SubSeq(s, 1, Len(s) - 1)) ELSE s

\* s.strip()
Strip(s) == RStrip(LStrip(s))

(***************************************************************************)
(* Fixed strings of the program.                                           *)
(***************************************************************************)
\* 'R-', the substring ehld_stids keeps lines by
RDash == <<"R", "-">>

\* '.sbgn', the extension sbgn_stids removes
SbgnExt == <<".", "s", "b", "g", "n">>

\* the default stId "R-HSA-177929" and pattern "R-HSA-"
DefaultPattern == <<"R", "-", "H", "S", "A", "-">>
DefaultAccession == <<"1", "7", "7", "9", "2", "9">>
DefaultStId == DefaultPattern \o DefaultAccession

\* the default drug arguments; each is one opaque token
DefaultSource == <<"drugcentral">>
DefaultPdId == <<"507988">>
DefaultPeId == <<"1220578">>
DefaultIds == <<"EGFR", NL, "ESR1", NL, "BRAF">>

StaticHost == "reactome.org"
ApiHost == "cpws.reactome.org"

MkUrl(method, host, endpoint, arg, data) ==
  [method |-> method, host |-> host, endpoint |-> endpoint, arg |-> arg,
   data |-> data]

EhldUrl == MkUrl("GET", StaticHost, "ehld/svgsummary.txt", <<>>, <<>>)
SbgnUrl == MkUrl("GET", StaticHost, "homo_sapiens.sbgn.tar.gz", <<>>, <<>>)
GmtUrl == MkUrl("GET", StaticHost, "ReactomePathways.gmt.zip", <<>>, <<>>)

PathwayFetchers ==
  {"pathway_fi", "pathway_boolean_network", "pathway_factor_graph"}
DrugFetchers ==
  {"drug_data_source", "drug_target_interactions",
   "drug_target_interaction_pe_in_diagram", "drug_target_interaction_diagram"}
JsonFetchers == PathwayFetchers \cup DrugFetchers

(***************************************************************************)
(* The remote state: per endpoint whether a connection can be made and the *)
(* status it answers with, and what the three bulk files hold.             *)
(***************************************************************************)
StatusCodes == {200, 404, 500}
Down == [up |-> FALSE, status |-> 0]
Up(s) == [up |-> TRUE, status |-> s]
Behaviours == {Down} \cup {Up(s) : s \in StatusCodes}
NetKeys == {"ehld", "sbgn", "gmt", "api"}

NetKey(url) ==
  IF url.host = ApiHost THEN "api"
  ELSE IF url = EhldUrl THEN "ehld"
  ELSE IF url = SbgnUrl THEN "sbgn"
  ELSE "gmt"

MkBody(text, ok, entries) == [text |-> text, ok |-> ok, entries |-> entries]

\* what the server holds at url: the summary text, the tar archive (whether
\* it can be opened, its member names), the zip archive (whether it can be
\* opened, its members' bytes), or a JSON document of the API
Payload(url) ==
  CASE NetKey(url) = "ehld" -> MkBody(remote.ehldText, TRUE, <<>>)
    [] NetKey(url) = "sbgn" -> MkBody(<<>>, remote.tarOk, remote.tarNames)
    [] NetKey(url) = "gmt" -> MkBody(<<>>, remote.zipOk, remote.zipMembers)
    [] OTHER -> MkBody(<<url.endpoint>> \o url.arg \o url.data, TRUE, <<>>)

\* a response local that was never assigned
Unassigned == [assigned |-> FALSE, status_code |-> 0, body |-> MkBody(<<>>, FALSE, <<>>)]

\* requests.get / requests.post returning
Answer(url) ==
  LET b == remote.net[NetKey(url)]
  IN  [assigned |-> TRUE, status_code |-> b.status,
       body |-> IF b.status = 200 THEN Payload(url) ELSE MkBody(<<>>, FALSE, <<>>)]

(***************************************************************************)
(* Outcomes of a call and what it printed.                                 *)
(***************************************************************************)
Pending == [kind |-> "pending", exc |-> "", value |-> <<>>]
ReturnValue(v) == [kind |-> "value", exc |-> "", value |-> v]
ReturnNone == [kind |-> "None", exc |-> "", value |-> <<>>]
Raise(e) == [kind |-> "raise", exc |-> e, value |-> <<>>]

PrintedError == [kind |-> "ConnectionError", code |-> 0]
PrintedStatus(code) == [kind |-> "status", code |-> code]

Ran(out, prints) == [outcome |-> out, printed |-> prints]

(***************************************************************************)
(* list(set(...)): a set of str is iterated in the order of the slots its  *)
(* elements hash to, and str hashes depend on the process's hash seed.     *)
(***************************************************************************)
RECURSIVE CodeSum(_, _)
CodeSum(s, k) ==
  IF s = <<>> THEN 0 ELSE (CharCode(Head(s)) * k + CodeSum(Tail(s), k + 1)) % 1000

StrHash(s, seed) == (CodeSum(s, seed + 1) + seed * Len(s)) % TableSize

RECURSIVE LexLess(_, _)
LexLess(a, b) ==
  IF a = <<>> THEN b # <<>>
  ELSE IF b = <<>> THEN FALSE
  ELSE IF Head(a) # Head(b) THEN CharCode(Head(a)) < CharCode(Head(b))
  ELSE LexLess(Tail(a), Tail(b))

SlotBefore(a, b, seed) ==
  \/ StrHash(a, seed) < StrHash(b, seed)
  \/ StrHash(a, seed) = StrHash(b, seed) /\ LexLess(a, b)

RECURSIVE IterOrder(_, _)
IterOrder(S, seed) ==
  IF S = {} THEN <<>>
  ELSE LET x == CHOOSE y \in S : \A z \in S \ {y} : SlotBefore(y, z, seed)
       IN  <<x>> \o IterOrder(S \ {x}, seed)

\* list(S) in the running interpreter process
ListOfSet(S) == IterOrder(S, hashSeed)

(***************************************************************************)
(* The code of the fetchers after the request: from the status check on.   *)
(***************************************************************************)
\* response.status_code == 200
StatusOk(resp) == resp.status_code = 200

\* utils.py 27: [stId for stId in content_list if 'R-' in stId]
EhldFilter(content_list) ==
  SelectSeq(content_list, LAMBDA stId : Contains(RDash, stId))

\* a connection error answered by returning nothing
EhldAfterRequestGuarded(resp) ==
  IF ~resp.assigned THEN Ran(ReturnNone, <<>>)
  ELSE IF StatusOk(resp)
       THEN Ran(ReturnValue(EhldFilter(SplitLines(resp.body.text))), <<>>)
       ELSE Ran(ReturnNone, <<PrintedStatus(resp.status_code)>>)

\* utils.py 25-30, reached with the response local assigned or not
EhldAfterRequest(resp) ==
  IF ~resp.assigned THEN Ran(Raise("UnboundLocalError"), <<>>)
  ELSE IF StatusOk(resp)
       THEN Ran(ReturnValue(EhldFilter(SplitLines(resp.body.text))), <<>>)
       ELSE Ran(ReturnNone, <<PrintedStatus(resp.status_code)>>)

\* utils.py 51: [f.replace('.sbgn', '') for f in file_names]
SbgnNames(names) == [i \in 1..Len(names) |-> Replace(names[i], SbgnExt, <<>>)]

\* the EHLD identifiers are not taken out
SbgnOnlyNoDifference(names, ehlds) == ListOfSet(Range(SbgnNames(names)))

\* the result is kept in a list that outlives the call
SbgnOnlyAccumulated(names, ehlds) ==
  (IF prev.fn = "sbgn_stids" THEN prev.outcome.value ELSE <<>>)
    \o ListOfSet(Range(SbgnNames(names)) \ Range(ehlds))

\* utils.py 51-53 with ehlds a list
SbgnOnly(names, ehlds) ==
  ListOfSet(Range(SbgnNames(names)) \ Range(ehlds))

\* utils.py 50-53: ehlds is what the nested ehld_stids() call did
SbgnAfterEhld(names, ehld) ==
  CASE ehld.outcome.kind = "raise" -> Ran(ehld.outcome, ehld.printed)
    [] ehld.outcome.kind = "None" -> Ran(Raise("TypeError"), ehld.printed)
    [] OTHER -> Ran(ReturnValue(SbgnOnly(names, ehld.outcome.value)), ehld.printed)

\* utils.py 102: [s.strip() for s in gm[i]]
StripFields(fields) == [j \in 1..Len(fields) |-> Strip(fields[j])]

\* utils.py 80: the first member's lines, each split on tab
ReadZipLines(members) ==
  LET lines == ReadLines(members[1])
  IN  [i \in 1..Len(lines) |-> Split(lines[i], TAB)]

\* utils.py 103: dict(name=gm[i][0], stId=gm[i][1], genes=gm[i][2:len(gm[i])])
MkRelation(f) == [name |-> f[1], stId |-> f[2], genes |-> SubSeq(f, 3, Len(f))]

\* utils.py 97-108
GeneAfterRequest(resp) ==
  IF ~resp.assigned THEN Ran(Raise("UnboundLocalError"), <<>>)
  ELSE IF ~StatusOk(resp)
       THEN Ran(ReturnNone, <<PrintedStatus(resp.status_code)>>)
  ELSE IF ~resp.body.ok THEN Ran(Raise("BadZipFile"), <<>>)
  ELSE IF resp.body.entries = <<>> THEN Ran(Raise("IndexError"), <<>>)
  ELSE LET lines == ReadZipLines(resp.body.entries)
           gm == [i \in 1..Len(lines) |-> StripFields(lines[i])]
       IN  IF \E i \in 1..Len(gm) : Len(gm[i]) < 2
           THEN Ran(Raise("IndexError"), <<>>)
           ELSE Ran(ReturnValue([i \in 1..Len(gm) |-> MkRelation(gm[i])]), <<>>)

\* utils.py 133-136 and its six copies
JsonAfterRequest(resp) ==
  IF ~resp.assigned THEN Ran(Raise("UnboundLocalError"), <<>>)
  ELSE IF StatusOk(resp) THEN Ran(ReturnValue(resp.body.text), <<>>)
       ELSE Ran(ReturnNone, <<PrintedStatus(resp.status_code)>>)

\* utils.py 123-124: if pattern in stId: stId = stId.replace(pattern, "")
StripPattern(stId, pattern) ==
  IF Contains(pattern, stId) THEN Replace(stId, pattern, <<>>) ELSE stId

(***************************************************************************)
(* The calls.  A caller runs one fetcher at a time (the module is          *)
(* synchronous); a call is at "request" while its HTTP request is out, at  *)
(* "check" with the request over, and at "done" once it returned or raised.*)
(***************************************************************************)
NoCall == [fn |-> "none", seed |-> 0, outcome |-> Pending]

\* the request is issued a second time
BeginRetried(f, url) ==
  /\ fn' = f
  /\ requests' = <<url, url>>
  /\ pc' = "request"
  /\ response' = Unassigned
  /\ nested' = Unassigned
  /\ file_names' = <<>>
  /\ printed' = <<>>
  /\ outcome' = Pending
  /\ UNCHANGED <<remote, input, hashSeed, prev>>

\* the lines of a fetcher up to and including its requests.get/post call
Begin(f, url) ==
  /\ fn' = f
  /\ requests' = <<url>>
  /\ pc' = "request"
  /\ response' = Unassigned
  /\ nested' = Unassigned
  /\ file_names' = <<>>
  /\ printed' = <<>>
  /\ outcome' = Pending
  /\ UNCHANGED <<remote, input, hashSeed, prev>>

\* the rest of a fetcher that issues no further request
Finish(ran) ==
  /\ outcome' = ran.outcome
  /\ printed' = printed \o ran.printed
  /\ pc' = "done"
  /\ UNCHANGED <<remote, input, hashSeed, fn, requests, response, nested,
                 file_names, prev>>

ehld_stids_call ==
  /\ pc = "idle"
  /\ Begin("ehld_stids", EhldUrl)

sbgn_stids_call ==
  /\ pc = "idle"
  /\ Begin("sbgn_stids", SbgnUrl)

gene_mappings_call ==
  /\ pc = "idle"
  /\ Begin("gene_mappings", GmtUrl)

PathwayEndpoint(f) ==
  CASE f = "pathway_fi" -> "network/convertPathwayToFIs"
    [] f = "pathway_boolean_network" -> "network/convertPathwayToBooleanNetwork"
    [] f = "pathway_factor_graph" -> "network/convertPathwayToFactorGraph"

PathwayUrl(f, stId, pattern) ==
  MkUrl(IF f = "pathway_factor_graph" THEN "POST" ELSE "GET", ApiHost,
        PathwayEndpoint(f), StripPattern(stId, pattern), <<>>)

pathway_fi_call ==
  /\ pc = "idle"
  /\ Begin("pathway_fi", PathwayUrl("pathway_fi", input.stId, input.pattern))

pathway_boolean_network_call ==
  /\ pc = "idle"
  /\ Begin("pathway_boolean_network",
           PathwayUrl("pathway_boolean_network", input.stId, input.pattern))

pathway_factor_graph_call ==
  /\ pc = "idle"
  /\ Begin("pathway_factor_graph",
           PathwayUrl("pathway_factor_graph", input.stId, input.pattern))

drug_data_source_call ==
  /\ pc = "idle"
  /\ Begin("drug_data_source",
           MkUrl("GET", ApiHost, "drug/listDrugs", DefaultSource, <<>>))

drug_target_interactions_call ==
  /\ pc = "idle"
  /\ Begin("drug_target_interactions",
           MkUrl("POST", ApiHost, "drug/queryDrugTargetInteractions",
                 DefaultSource, DefaultIds))

drug_target_interaction_pe_in_diagram_call ==
  /\ pc = "idle"
  /\ Begin("drug_target_interaction_pe_in_diagram",
           MkUrl("GET", ApiHost, "drug/queryInteractionsForPEInDiagram",
                 DefaultSource \o <<"/">> \o Join(<<DefaultPdId, DefaultPeId>>, <<"/">>),
                 <<>>))

drug_target_interaction_diagram_call ==
  /\ pc = "idle"
  /\ Begin("drug_target_interaction_diagram",
           MkUrl("GET", ApiHost, "drug/queryInteractionsForDiagram",
                 DefaultSource \o <<"/">> \o DefaultPdId, <<>>))

\* requests.get / requests.post returns: the local of the frame that made
\* the request is assigned (sbgn_stids' own, or the nested ehld_stids')
HttpResponse ==
  /\ pc \in {"request", "nested_request"}
  /\ remote.net[NetKey(Last(requests))].up
  /\ IF pc = "request"
     THEN response' = Answer(Last(requests)) /\ nested' = nested
     ELSE nested' = Answer(Last(requests)) /\ response' = response
  /\ pc' = IF pc = "request" THEN "check" ELSE "nested_check"
  /\ UNCHANGED <<remote, input, hashSeed, fn, requests, file_names, printed,
                 outcome, prev>>

\* requests raises ConnectionError: except ConnectionError as e: print(e)
HttpConnectionError ==
  /\ pc \in {"request", "nested_request"}
  /\ ~remote.net[NetKey(Last(requests))].up
  /\ printed' = Append(printed, PrintedError)
  /\ pc' = IF pc = "request" THEN "check" ELSE "nested_check"
  /\ UNCHANGED <<remote, input, hashSeed, fn, requests, response, nested,
                 file_names, outcome, prev>>

ehld_stids_check ==
  /\ pc = "check" /\ fn = "ehld_stids"
  /\ Finish(EhldAfterRequest(response))

\* the summary is requested whatever the archive request gave
SbgnOpensUnchecked(resp) == resp.assigned

\* utils.py 47-48: the status is 200 and tarfile.open does not raise
SbgnOpens(resp) == resp.assigned /\ StatusOk(resp) /\ resp.body.ok

\* utils.py 47-50 up to the request of the nested ehld_stids(); 54-55
sbgn_stids_check ==
  /\ pc = "check" /\ fn = "sbgn_stids"
  /\ IF ~response.assigned THEN Finish(Ran(Raise("UnboundLocalError"), <<>>))
     ELSE IF SbgnOpens(response)
          THEN /\ file_names' = response.body.entries
               /\ requests' = Append(requests, EhldUrl)
               /\ pc' = "nested_request"
               /\ UNCHANGED <<remote, input, hashSeed, fn, response, nested,
                              printed, outcome, prev>>
     ELSE IF StatusOk(response) THEN Finish(Ran(Raise("ReadError"), <<>>))
     ELSE Finish(Ran(ReturnNone, <<PrintedStatus(response.status_code)>>))

\* the nested ehld_stids() from its status check on, then lines 51-53
sbgn_stids_finish ==
  /\ pc = "nested_check" /\ fn = "sbgn_stids"
  /\ Finish(SbgnAfterEhld(file_names, EhldAfterRequest(nested)))

gene_mappings_check ==
  /\ pc = "check" /\ fn = "gene_mappings"
  /\ Finish(GeneAfterRequest(response))

json_check ==
  /\ pc = "check" /\ fn \in JsonFetchers
  /\ Finish(JsonAfterRequest(response))

\* the call is over; the caller keeps what it gave
Return ==
  /\ pc = "done"
  /\ prev' = [fn |-> fn, seed |-> hashSeed, outcome |-> outcome]
  /\ pc' = "idle"
  /\ fn' = "none"
  /\ requests' = <<>>
  /\ response' = Unassigned
  /\ nested' = Unassigned
  /\ file_names' = <<>>
  /\ printed' = <<>>
  /\ outcome' = Pending
  /\ UNCHANGED <<remote, input, hashSeed>>

\* the program is run again: a new interpreter process, a new hash seed
Restart ==
  /\ pc = "idle"
  /\ hashSeed' \in (0..(HashSeeds - 1)) \ {hashSeed}
  /\ UNCHANGED <<remote, input, pc, fn, requests, response, nested,
                 file_names, printed, outcome, prev>>

(***************************************************************************)
(* Remote states and inputs the calls are run against.                     *)
(***************************************************************************)
Id1 == <<"R", "-", "1">>
Id2 == <<"R", "-", "2">>
OtherName == <<"x">>

\* svgsummary.txt: lines of identifiers, and lines that are none
EhldLineUniverse == {Id1, Id2, OtherName}
TextOf(lines) == Concat([i \in 1..Len(lines) |-> lines[i] \o <<NL>>])
EhldTexts == {TextOf(ls) : ls \in SeqsUpTo(EhldLineUniverse, MaxEntries)}

\* the tar archive: members named <stId>.sbgn, and members named otherwise
TarNameUniverse == {Id1 \o SbgnExt, Id2 \o SbgnExt, OtherName \o SbgnExt}
TarNameLists == SeqsUpTo(TarNameUniverse, MaxEntries)

\* the GMT member: lines of tab-separated fields, each line ended by \n
FieldUniverse == {<<>>, <<SP, "a">>}
GmtLines ==
  {Join(fs, <<TAB>>) \o <<NL>> : fs \in SeqsUpTo(FieldUniverse, MaxFields) \ {<<>>}}
GmtContents == {Concat(ls) : ls \in SeqsUpTo(GmtLines, MaxGmtLines)}
OtherMember == <<"b", TAB, "b", NL>>
ZipMemberLists ==
  {<<>>} \cup {<<c>> : c \in GmtContents} \cup {<<c, OtherMember>> : c \in GmtLines}

\* the identifiers and patterns the pathway fetchers are called with
Parts == {DefaultPattern, DefaultAccession}
StIds == {Concat(ps) : ps \in SeqsUpTo(Parts, MaxParts)}
Patterns == {DefaultPattern, <<>>, <<"7">>, <<"H", "S", "A", "-">>}

DefaultInput == [stId |-> DefaultStId, pattern |-> DefaultPattern]

AllUp == [k \in NetKeys |-> Up(200)]

SampleRemote ==
  [net |-> AllUp,
   ehldText |-> TextOf(<<OtherName, Id2>>),
   tarOk |-> TRUE,
   tarNames |-> <<Id1 \o SbgnExt, Id2 \o SbgnExt, OtherName \o SbgnExt>>,
   zipOk |-> TRUE,
   zipMembers |-> <<Join(<<<<"a">>, Id1, <<"b">>>>, <<TAB>>) \o <<NL>>>>]

\* every pair of behaviours of the two listing endpoints; a file is only
\* read from an endpoint that answers 200
ListingRemotes ==
  {[SampleRemote EXCEPT !.net = [AllUp EXCEPT !["ehld"] = e, !["sbgn"] = b],
                        !.ehldText = t, !.tarOk = ok, !.tarNames = ns] :
     <<e, b, t, ok, ns>> \in
       {x \in Behaviours \X Behaviours \X EhldTexts \X BOOLEAN \X TarNameLists :
          /\ x[1] # Up(200) => x[3] = <<>>
          /\ (x[2] # Up(200) \/ ~x[4]) => x[5] = <<>>
          /\ x[2] # Up(200) => x[4]}}

GeneRemotes ==
  {[SampleRemote EXCEPT !.net = [AllUp EXCEPT !["gmt"] = g],
                        !.zipOk = ok, !.zipMembers = ms] :
     <<g, ok, ms>> \in
       {x \in Behaviours \X BOOLEAN \X ZipMemberLists :
          /\ (x[1] # Up(200) \/ ~x[2]) => x[3] = <<>>
          /\ x[1] # Up(200) => x[2]}}

ApiRemotes ==
  {[SampleRemote EXCEPT !.net = [AllUp EXCEPT !["api"] = a]] : a \in Behaviours}

\* the sample files behind every behaviour of the endpoints
SampleRemotes ==
  {[SampleRemote EXCEPT !.net = [AllUp EXCEPT !["ehld"] = e, !["sbgn"] = b],
                        !.tarOk = ok] :
     <<e, b, ok>> \in Behaviours \X Behaviours \X BOOLEAN}
  \cup {[SampleRemote EXCEPT !.net = [AllUp EXCEPT !["gmt"] = g], !.zipOk = ok] :
          <<g, ok>> \in Behaviours \X BOOLEAN}
  \cup ApiRemotes

Seeds == 0..(HashSeeds - 1)

Idle ==
  /\ pc = "idle"
  /\ fn = "none"
  /\ requests = <<>>
  /\ response = Unassigned
  /\ nested = Unassigned
  /\ file_names = <<>>
  /\ printed = <<>>
  /\ outcome = Pending
  /\ prev = NoCall

\* every fetcher, called with its default arguments
Init ==
  /\ remote \in SampleRemotes
  /\ input = DefaultInput
  /\ hashSeed \in Seeds
  /\ Idle

Next ==
  \/ ehld_stids_call \/ ehld_stids_check
  \/ sbgn_stids_call \/ sbgn_stids_check \/ sbgn_stids_finish
  \/ gene_mappings_call \/ gene_mappings_check
  \/ pathway_fi_call \/ pathway_boolean_network_call
  \/ pathway_factor_graph_call
  \/ drug_data_source_call \/ drug_target_interactions_call
  \/ drug_target_interaction_pe_in_diagram_call
  \/ drug_target_interaction_diagram_call
  \/ json_check
  \/ HttpResponse \/ HttpConnectionError
  \/ Return \/ Restart

Spec == Init /\ [][Next]_vars

\* the two listing fetchers against every listing
InitListing ==
  /\ remote \in ListingRemotes
  /\ input = DefaultInput
  /\ hashSeed \in Seeds
  /\ Idle

NextListing ==
  \/ ehld_stids_call \/ ehld_stids_check
  \/ sbgn_stids_call \/ sbgn_stids_check \/ sbgn_stids_finish
  \/ HttpResponse \/ HttpConnectionError
  \/ Return \/ Restart

SpecListing == InitListing /\ [][NextListing]_vars

\* gene_mappings against every GMT archive
InitGene ==
  /\ remote \in GeneRemotes
  /\ input = DefaultInput
  /\ hashSeed = 0
  /\ Idle

NextGene ==
  \/ gene_mappings_call \/ gene_mappings_check
  \/ HttpResponse \/ HttpConnectionError
  \/ Return

SpecGene == InitGene /\ [][NextGene]_vars

\* the pathway fetchers with every identifier and pattern
InitPathway ==
  /\ remote \in ApiRemotes
  /\ input \in [stId : StIds, pattern : Patterns]
  /\ hashSeed = 0
  /\ Idle

NextPathway ==
  \/ pathway_fi_call \/ pathway_boolean_network_call
  \/ pathway_factor_graph_call
  \/ json_check
  \/ HttpResponse \/ HttpConnectionError
  \/ Return

SpecPathway == InitPathway /\ [][NextPathway]_vars

(***************************************************************************)
(* What the claims are stated with.                                        *)
(***************************************************************************)
Done == pc = "done"

\* a response with a status other than 200 was received during the call
NonOkReceived ==
  \/ response.assigned /\ response.status_code # 200
  \/ nested.assigned /\ nested.status_code # 200

\* a request of the call met a connection error
ConnectionFailed ==
  \E i \in 1..Len(requests) : ~remote.net[NetKey(requests[i])].up

StatusPrinted == \E i \in 1..Len(printed) : printed[i].kind = "status"

\* s with one occurrence of p at its start removed, if there is one
WithoutLeading(s, p) ==
  IF StartsWith(s, p) THEN SubSeq(s, Len(p) + 1, Len(s)) ELSE s

\* no whitespace at either end
Trimmed(s) == s = <<>> \/ (Head(s) \notin Whitespace /\ Last(s) \notin Whitespace)

\* the number of line terminators of a member whose lines all end in one
LineCount(bytes) == Cardinality({i \in 1..Len(bytes) : bytes[i] = NL})

Count(seq, x) == Cardinality({i \in 1..Len(seq) : seq[i] = x})

\* requests of the call that are over: answered, or failed and printed
Completed ==
  (IF response.assigned THEN 1 ELSE 0) + (IF nested.assigned THEN 1 ELSE 0)
    + Count(printed, PrintedError)

(***************************************************************************)
(* C1: whenever a response received during a call of a fetcher has a       *)
(* status other than 200, the call returns None, raises nothing and prints *)
(* the status code; also when sbgn_stids' own request got 200 and the      *)
(* nested ehld_stids request did not.                                      *)
(***************************************************************************)
C1_NonOkReturnsNone ==
  (Done /\ NonOkReceived) =>
    /\ outcome.kind = "None"
    /\ \A r \in {response, nested} :
         (r.assigned /\ r.status_code # 200) =>
           PrintedStatus(r.status_code) \in Range(printed)

(***************************************************************************)
(* C2: the identifier a pathway fetcher puts in the request path is stId   *)
(* with exactly one leading occurrence of the pattern removed when stId    *)
(* contains the pattern, and stId unchanged when it does not.              *)
(***************************************************************************)
C2_OneLeadingOccurrenceRemoved ==
  (fn \in PathwayFetchers /\ requests # <<>>) =>
    requests[1].arg =
      IF Contains(input.pattern, input.stId)
      THEN WithoutLeading(input.stId, input.pattern)
      ELSE input.stId

(***************************************************************************)
(* C3: every element of a list returned by ehld_stids or sbgn_stids        *)
(* contains 'R-', whatever the member names of the tar archive are.        *)
(***************************************************************************)
C3_ListedContainRDash ==
  (Done /\ fn \in {"ehld_stids", "sbgn_stids"} /\ outcome.kind = "value") =>
    \A i \in 1..Len(outcome.value) : Contains(RDash, outcome.value[i])

(***************************************************************************)
(* C4: a list returned by sbgn_stids shares no element with the list       *)
(* ehld_stids returned for the same remote state, and holds exactly the    *)
(* member names with '.sbgn' removed that ehld_stids did not return.       *)
(***************************************************************************)
C4_SbgnDisjointFromEhld ==
  (/\ Done /\ fn = "sbgn_stids" /\ outcome.kind = "value"
   /\ prev.fn = "ehld_stids" /\ prev.outcome.kind = "value") =>
    /\ Range(outcome.value) \cap Range(prev.outcome.value) = {}
    /\ Range(outcome.value) =
         {Replace(remote.tarNames[i], SbgnExt, <<>>) : i \in 1..Len(remote.tarNames)}
           \ Range(prev.outcome.value)

C4_Witness ==
  /\ Done /\ fn = "sbgn_stids" /\ outcome.kind = "value"
  /\ prev.fn = "ehld_stids" /\ prev.outcome.kind = "value"
  /\ outcome.value # <<>>
  /\ \E i \in 1..Len(remote.tarNames) :
       Replace(remote.tarNames[i], SbgnExt, <<>>) \in Range(prev.outcome.value)

(***************************************************************************)
(* C5: every record gene_mappings returns has a non-empty name and stId    *)
(* without whitespace at either end, and genes without whitespace at       *)
(* either end, whatever the first member of the archive holds.             *)
(***************************************************************************)
C5_RecordsNonEmptyTrimmed ==
  (Done /\ fn = "gene_mappings" /\ outcome.kind = "value") =>
    \A i \in 1..Len(outcome.value) :
      LET d == outcome.value[i]
      IN  /\ d.name # <<>> /\ Trimmed(d.name)
          /\ d.stId # <<>> /\ Trimmed(d.stId)
          /\ \A j \in 1..Len(d.genes) : Trimmed(d.genes[j])

(***************************************************************************)
(* C6: on a 200 response gene_mappings returns one record per line of the  *)
(* first member, in line order: name is field 0, stId field 1 and genes    *)
(* the remaining fields, of the line split on tab and trimmed.             *)
(***************************************************************************)
C6_OneRecordPerLine ==
  (/\ Done /\ fn = "gene_mappings" /\ response.assigned
   /\ response.status_code = 200 /\ remote.zipOk /\ remote.zipMembers # <<>>) =>
    /\ outcome.kind = "value"
    /\ Len(outcome.value) = LineCount(remote.zipMembers[1])
    /\ \A i \in 1..Len(outcome.value) :
         LET f == StripFields(Split(ReadLines(remote.zipMembers[1])[i], TAB))
         IN  /\ outcome.value[i].name = f[1]
             /\ outcome.value[i].stId = f[2]
             /\ outcome.value[i].genes = SubSeq(f, 3, Len(f))

(***************************************************************************)
(* C7: after a connection error the error is printed, the status check     *)
(* raises on the unassigned response, the call returns nothing (neither a  *)
(* payload nor None) and prints no status code.                            *)
(***************************************************************************)
C7_ConnectionErrorRaises ==
  /\ (pc \in {"check", "nested_check", "done"} /\ ConnectionFailed) =>
       PrintedError \in Range(printed)
  /\ (Done /\ ConnectionFailed) =>
       /\ outcome = Raise("UnboundLocalError")
       /\ ~StatusPrinted

C7_Witness ==
  /\ Done /\ fn = "sbgn_stids" /\ Len(requests) = 2 /\ ConnectionFailed
  /\ response.assigned /\ outcome.kind = "raise"

(***************************************************************************)
(* C8 as stated: no call of any fetcher, sbgn_stids included, issues more  *)
(* than one HTTP request, and the request is over when the call ends.      *)
(***************************************************************************)
C8_AtMostOneRequest ==
  /\ Len(requests) <= 1
  /\ Done => Completed = Len(requests)

(***************************************************************************)
(* C8 amended: every fetcher but sbgn_stids issues at most one request;    *)
(* sbgn_stids issues at most two, its archive request and then the EHLD    *)
(* summary request; every request is over when the call ends.              *)
(***************************************************************************)
C8_OneRequestButSbgn ==
  /\ fn # "sbgn_stids" => Len(requests) <= 1
  /\ fn = "sbgn_stids" =>
       /\ Len(requests) <= 2
       /\ requests[1] = SbgnUrl
       /\ Len(requests) = 2 => requests[2] = EhldUrl
  /\ Done => Completed = Len(requests)

C8_Witness ==
  /\ Done /\ fn = "sbgn_stids" /\ Len(requests) = 2 /\ outcome.kind = "value"

(***************************************************************************)
(* C9 as stated: two calls of a fetcher with the same inputs against the   *)
(* same remote state give the same output, for sbgn_stids the same         *)
(* elements in the same order.                                             *)
(***************************************************************************)
C9_SameOutput ==
  (Done /\ prev.fn = fn) => prev.outcome = outcome

(***************************************************************************)
(* C9 amended: two such calls give the same output when they run in the    *)
(* same interpreter process; in different processes they raise or return   *)
(* alike, and sbgn_stids returns the same elements, in an order that may   *)
(* differ.                                                                 *)
(***************************************************************************)
C9_SameOutputInProcess ==
  (Done /\ prev.fn = fn) =>
    /\ prev.outcome.kind = outcome.kind
    /\ prev.outcome.exc = outcome.exc
    /\ (prev.seed = hashSeed \/ fn # "sbgn_stids") => prev.outcome = outcome
    /\ fn = "sbgn_stids" =>
         /\ Range(prev.outcome.value) = Range(outcome.value)
         /\ Len(prev.outcome.value) = Len(outcome.value)

C9_Witness ==
  /\ Done /\ prev.fn = fn /\ fn = "sbgn_stids" /\ outcome.kind = "value"
  /\ prev.seed # hashSeed
  /\ prev.outcome.value # outcome.value

(***************************************************************************)
(* C10: sbgn_stids requests the EHLD summary only after its archive        *)
(* request was answered with 200 and the archive was opened.               *)
(***************************************************************************)
C10_EhldAfterArchiveOpened ==
  (fn = "sbgn_stids" /\ EhldUrl \in Range(requests)) =>
    /\ response.assigned
    /\ response.status_code = 200
    /\ response.body.ok
    /\ requests[1] = SbgnUrl

C10_Witness ==
  /\ fn = "sbgn_stids" /\ pc = "nested_request" /\ Last(requests) = EhldUrl

====
